---------------------------- MODULE Spec2Model ----------------------------
(***************************************************************************)
(* The telephony voice pipeline of vaniBot: the Twilio Media Streams       *)
(* WebSocket handler (src/api/main.py, twilio_media_stream_ws) driving the *)
(* session orchestrator (src/voice/orchestrator.py, VoiceOrchestrator).    *)
(*                                                                         *)
(* One handler task runs per WebSocket connection.  Python's asyncio runs  *)
(* the code between two suspending awaits atomically, so every action      *)
(* below is the code from one suspension point to the next.  The           *)
(* suspension points are: receive_text, the HTTP call to Rasa, the         *)
(* transcription call, the synthesis call and each send_text.              *)
(***************************************************************************)
EXTENDS Integers, Sequences, FiniteSets, TLC

(***************************************************************************)
(* Bounds of the model.                                                    *)
(***************************************************************************)
MaxStarts == 2        \* start events read over a run
MaxMedia == 4         \* media frames buffered over a run of Spec
MaxInbox == 1         \* frames queued on a connection, not yet read
MinBufferChunks == 2  \* the scaled flush threshold, in 20 ms chunks
MaxMediaTurn == 5     \* media frames buffered over a run of SpecTurn
MaxMediaVad == 155    \* media frames buffered over a run of SpecVad
MaxFailures == 2      \* failed collaborator calls counted per session
MaxFrames == 9        \* frames fed to the segmenter on its own
SpeechMinChunks == 2  \* its minimum speech duration, in 20 ms chunks
SilenceTriggerChunks == 2   \* its trailing-silence trigger, in chunks
MaxSpeechChunks == 4  \* its speech cap, in chunks
MaxText == 5          \* characters of a text given to the normalizer

(***************************************************************************)
(* Program constants.                                                      *)
(***************************************************************************)
CHUNK_DURATION_MS == 20
MIN_BUFFER_DURATION_MS == 3000
\* orchestrator.py:39 sets 0.4; confidences are carried in hundredths.
MIN_CONFIDENCE_THRESHOLD == 40
\* main.py:183, bytes of 16-bit PCM in one 20 ms frame at 8 kHz.
pcm_chunk_size == 320

\* The WebSocket connections, one handler task each
Conns == {1, 2}
CallSids == {"CA1", "CA2"}
\* Call ids are arbitrary names: the first start of a run carries this one
FirstCallSid == "CA1"
StreamSids == {"MZ1"}
None == "None"

(***************************************************************************)
(* Payloads of inbound media frames.  "" is a missing payload, "bad" a     *)
(* string base64.b64decode rejects, "junk" a string of non-alphabet        *)
(* characters (decoded to no bytes), "speech" one loud mu-law byte and     *)
(* "quiet" one mu-law byte of silence.  Audio is a sequence of PCM         *)
(* samples: "S" is a loud sample, "q" a sample of silence.                 *)
(***************************************************************************)
Payloads == {"", "bad", "junk", "speech", "quiet"}

\* TwilioHandler.decode_audio on a payload that decodes
decode_audio(payload) ==
    CASE payload = "speech" -> << "S" >>
      [] payload = "quiet" -> << "q" >>
      [] OTHER -> << >>

\* resample_8k_to_16k: fewer than two samples (4 bytes) are returned as they
\* are, otherwise the sample count doubles (resample_poly, up=2).
resample_8k_to_16k(audio_8k) ==
    IF Len(audio_8k) * 2 < 4
    THEN audio_8k
    ELSE [i \in 1..(2 * Len(audio_8k)) |-> audio_8k[(i + 1) \div 2]]

(***************************************************************************)
(* The segmenter, VADState (twilio_handler.py:373-467).  Levels are in     *)
(* whole dB.  The segmenter is fed one frame at a time, and in the model a *)
(* frame decodes to one sample: "S" is a loud sample (8316, -12 dB), "m" a *)
(* murmur between the two thresholds (460, -37 dB) and "q" silence (0).    *)
(***************************************************************************)
speech_threshold_db == -30
silence_threshold_db == -40
speech_min_ms == 100
silence_trigger_ms == 500
max_speech_ms == 10000

\* calculate_rms: the RMS of a chunk of equal samples is their magnitude;
\* a chunk with no samples has RMS 0
calculate_rms(audio_data) ==
    IF \E i \in 1..Len(audio_data) : audio_data[i] = "S" THEN 8316
    ELSE IF \E i \in 1..Len(audio_data) : audio_data[i] = "m" THEN 460
    ELSE 0

\* calculate_rms_db: -96 when the RMS is below 1 (no samples, or silence),
\* otherwise 20 * log10(rms / 32768)
calculate_rms_db(audio_data) ==
    LET rms == calculate_rms(audio_data)
    IN IF rms < 1 THEN -96 ELSE IF rms = 8316 THEN -12 ELSE -37

\* VADState.__init__ with the defaults of its parameters; is_speech and
\* should_finalize hold what the last process_chunk returned
VADState ==
    [speech_threshold_db |-> speech_threshold_db,
     silence_threshold_db |-> silence_threshold_db,
     speech_min_ms |-> speech_min_ms,
     silence_trigger_ms |-> silence_trigger_ms,
     max_speech_ms |-> max_speech_ms,
     is_speaking |-> FALSE, speech_start_ms |-> 0, silence_start_ms |-> 0,
     total_speech_ms |-> 0, noise_floor_samples |-> << >>,
     noise_floor |-> 200, is_speech |-> FALSE, should_finalize |-> FALSE]

\* np.percentile(samples, q) for q = 20, linear interpolation between the
\* two nearest ranks: rank 0.2 * (n - 1) counted from 0.  The RMS values of
\* the model are multiples of 5, so the result is a whole number.
percentile(samples, q) ==
    LET sorted == SortSeq(samples, LAMBDA x, y : x < y)
        n == Len(sorted)
        lo == ((n - 1) * q) \div 100 + 1
        rest == ((n - 1) * q) % 100
    IN IF rest = 0 THEN sorted[lo]
       ELSE sorted[lo] + (rest * (sorted[lo + 1] - sorted[lo])) \div 100

\* VADState.update_noise_floor: the last 50 RMS values of pure silence, and
\* their 20th percentile once there are 5
update_noise_floor(v, rms) ==
    LET all == Append(v.noise_floor_samples, rms)
        samples == IF Len(all) > 50 THEN Tail(all) ELSE all
    IN [v EXCEPT !.noise_floor_samples = samples,
                 !.noise_floor = IF Len(samples) >= 5
                                 THEN percentile(samples, 20) ELSE @]

\* The end-of-utterance test made against the speech cap
silence_complete_cap(v, silence_ms) == silence_ms >= v.max_speech_ms

\* The end-of-utterance test taken as "longer than the trigger"
silence_complete_gt(v, silence_ms) == silence_ms > v.silence_trigger_ms

\* twilio_handler.py:444: the trailing silence ends the utterance
silence_complete(v, silence_ms) == silence_ms >= v.silence_trigger_ms

\* The cap test taken as "more than the cap"
speech_cap_reached_gt(v) == v.total_speech_ms > v.max_speech_ms

\* twilio_handler.py:455: the accumulated speech has reached the cap
speech_cap_reached(v) == v.total_speech_ms >= v.max_speech_ms

\* VADState.process_chunk.  is_silence is computed (twilio_handler.py:425)
\* and read nowhere.
process_chunk(v, audio_chunk, chunk_duration_ms) ==
    LET rms_db == calculate_rms_db(audio_chunk)
        rms == calculate_rms(audio_chunk)
        is_speech == rms_db > v.speech_threshold_db
        is_silence == rms_db < v.silence_threshold_db
        silence_ms == v.silence_start_ms + chunk_duration_ms
        ends == ~is_speech /\ v.is_speaking
                    /\ silence_complete(v, silence_ms)
        a == IF is_speech
             THEN [v EXCEPT !.is_speaking = TRUE,
                            !.speech_start_ms =
                                (IF v.is_speaking THEN @ ELSE 0)
                                    + chunk_duration_ms,
                            !.total_speech_ms = @ + chunk_duration_ms,
                            !.silence_start_ms = 0]
             ELSE IF ends
             THEN [v EXCEPT !.is_speaking = FALSE, !.total_speech_ms = 0,
                            !.silence_start_ms = 0]
             ELSE IF v.is_speaking
             THEN [v EXCEPT !.silence_start_ms = silence_ms]
             ELSE update_noise_floor(v, rms)
        forced == speech_cap_reached(a)
    IN [a EXCEPT !.is_speaking = IF forced THEN FALSE ELSE @,
                 !.total_speech_ms = IF forced THEN 0 ELSE @,
                 !.is_speech = is_speech,
                 !.should_finalize =
                     forced \/ (ends /\ v.total_speech_ms >= v.speech_min_ms)]

\* A reset that leaves the silence counter as it is
reset_keep_silence(v) ==
    [v EXCEPT !.is_speaking = FALSE, !.speech_start_ms = 0,
              !.total_speech_ms = 0]

\* VADState.reset
reset(v) ==
    [v EXCEPT !.is_speaking = FALSE, !.speech_start_ms = 0,
              !.silence_start_ms = 0, !.total_speech_ms = 0]

(***************************************************************************)
(* The mu-law codec (twilio_handler.py:29-86).  Audio is a sequence of     *)
(* signed 16-bit samples, its encoding a sequence of bytes.                *)
(***************************************************************************)
_MULAW_BIAS == 132
_MULAW_CLIP == 32635

Int16 == -32768..32767

\* sample & (1 << bit) is not zero
bit_set(sample, bit) == (sample \div 2^bit) % 2 = 1

\* _MULAW_DECODE_TABLE[byte_val], as _build_mulaw_decode_table fills it
_MULAW_DECODE_TABLE(byte_val) ==
    LET complement == 255 - byte_val
        sign == complement >= 128
        exponent == (complement \div 16) % 8
        mantissa == complement % 16
        sample == (mantissa * 8 + _MULAW_BIAS) * 2^exponent - _MULAW_BIAS
    IN IF sign THEN -sample ELSE sample

\* mulaw_decode: the table entry of each byte
mulaw_decode(mulaw_bytes) ==
    [i \in 1..Len(mulaw_bytes) |-> _MULAW_DECODE_TABLE(mulaw_bytes[i])]

\* The body of pcm16_to_mulaw's loop: the byte of one sample.  The exponent
\* is the highest exp in 7..1 whose bit exp + 3 is set in the biased
\* magnitude, and 0 when there is none.
mulaw_byte(pcm_sample) ==
    LET sign == IF pcm_sample < 0 THEN 128 ELSE 0
        magnitude == IF pcm_sample < 0 THEN -pcm_sample ELSE pcm_sample
        clipped == IF magnitude > _MULAW_CLIP THEN _MULAW_CLIP ELSE magnitude
        sample == clipped + _MULAW_BIAS
        exps == {exp \in 1..7 : bit_set(sample, exp + 3)}
        exponent == IF exps = {} THEN 0
                    ELSE CHOOSE exp \in exps : \A x \in exps : x <= exp
        mantissa == (sample \div 2^(exponent + 3)) % 16
    IN 255 - (sign + exponent * 16 + mantissa)

\* pcm16_to_mulaw: one byte per sample
pcm16_to_mulaw(pcm_samples) ==
    [i \in 1..Len(pcm_samples) |-> mulaw_byte(pcm_samples[i])]

(***************************************************************************)
(* Results of the collaborators.                                           *)
(***************************************************************************)
\* GoogleSTT.transcribe as seen through _transcribe_audio: None (no result
\* or an exception, both logged) or a TranscriptionResult.
\* (found = FALSE stands for None).
NoTranscript == [found |-> FALSE, text |-> "", confidence |-> 0]
\* The recognized texts in Roman script, and one in Devanagari, written by
\* its code points ("svata", the recognizer's rendering of "swap")
RomanTexts == {"", " ", "kya hai", "please help", "ok"}
Svata == "U+0938 U+094D U+0935 U+0924"
Transcripts ==
    {NoTranscript}
        \cup [found : {TRUE},
              text : RomanTexts \cup {Svata},
              confidence : {39, 40, 90}]

\* not transcript.text.strip(): the text is empty or only white space
blank(text) == text \in {"", " "}

\* DeepgramLanguageDetector.detect_from_text on the texts above: no text,
\* then a Devanagari character, then the ratio of Hindi marker words among
\* the marker words
detect_from_text(text) ==
    CASE text = "" -> "hi-en"
      [] text = " " -> "hi-en"
      [] text = "kya hai" -> "hi"
      [] text = "please help" -> "en"
      [] text = Svata -> "hi"
      [] OTHER -> "hi-en"

\* A detector that follows every detected language
switch_to_detected(current, detected) == current # detected

\* DeepgramLanguageDetector.should_switch_language
should_switch_language(current, detected) ==
    IF current = "hi-en" THEN FALSE
    ELSE IF current = "hi" /\ detected = "en" THEN TRUE
    ELSE IF current = "en" /\ detected = "hi" THEN TRUE
    ELSE FALSE

\* _send_to_rasa returns {"responses": [...]}; an error, a timeout or a
\* non-200 status gives the empty list.  Each response is its text and its
\* custom.action ("" when absent).
HandoffTexts == {"agent se connect kar rahi hoon", "call transfer"}
RasaResponses ==
    { << >>,
      << [text |-> "aapka swap ho gaya", action |-> ""] >>,
      << [text |-> " ", action |-> ""] >>,
      << [text |-> "", action |-> "handoff"] >>,
      << [text |-> "agent se connect kar rahi hoon", action |-> ""] >> }

\* VoiceOrchestrator._should_handoff
_should_handoff(responses) ==
    \E i \in 1..Len(responses) :
        \/ responses[i].action = "handoff"
        \/ responses[i].text \in HandoffTexts

\* VoiceOrchestrator._extract_response_text: the first text that is not blank
_extract_response_text(responses) ==
    LET idx == {i \in 1..Len(responses) :
                    responses[i].text \notin {"", " "}}
    IN IF idx = {} THEN ""
       ELSE responses[CHOOSE i \in idx : \A j \in idx : i <= j].text

\* The message of a turn's request to the dialogue engine
\* (orchestrator.py:190-192)
rasa_message(transcript) == transcript.text

\* synthesize_for_twilio: the length in bytes of the 8 kHz PCM returned
ReplyLens == {0, 320, 400}

\* VoiceOrchestrator.on_handoff, the escalation callback: set to None by
\* __init__ and assigned nowhere else
on_handoff == None

(***************************************************************************)
(* Caller numbers: customParameters.phone of a start event, a sequence of  *)
(* characters ("\t" stands for any white space other than a space).        *)
(***************************************************************************)
Digits == {"0", "1", "2", "3", "4", "5", "6", "7", "8", "9"}
CountryCode == << "+", "9", "1" >>
\* The number of the scenario, "+91 98765 43210"
ScenarioPhone ==
    CountryCode \o << " ", "9", "8", "7", "6", "5", " ",
                      "4", "3", "2", "1", "0" >>
PhonePrefixes ==
    { << >>, CountryCode, CountryCode \o << " " >>, << "+" >>,
      << "9", "1" >>, << "0" >>, << "+", "1", " " >> }
PhoneBodies ==
    { << >>,
      << "1", "2", "3", "4", "5" >>,
      << "9", "8", "7", "6", "5", "4", "3", "2", "1", "0" >>,
      << "9", "8", "7", "6", "5", " ", "4", "3", "2", "1", "0" >>,
      << "9", "8", "7", "6", "5", "-", "4", "3", "2", "1", "0" >>,
      << "9", "8", "7", "6", "5", "4", "3", "2", "1", "0", "\t" >>,
      << "9", "8", "+", "9", "1", "6", "5", "4", "3", "2", "1", "0" >> }
Phones == {p \o b : p \in PhonePrefixes, b \in PhoneBodies}

\* str.replace(old, ""): every occurrence of old is removed, left to right
RECURSIVE replace(_, _)
replace(s, old) ==
    IF Len(s) < Len(old) THEN s
    ELSE IF SubSeq(s, 1, Len(old)) = old
    THEN replace(SubSeq(s, Len(old) + 1, Len(s)), old)
    ELSE << Head(s) >> \o replace(Tail(s), old)

\* str.strip(): leading and trailing white space is removed
RECURSIVE strip(_)
strip(s) ==
    IF s = << >> THEN s
    ELSE IF Head(s) \in {" ", "\t"} THEN strip(Tail(s))
    ELSE IF s[Len(s)] \in {" ", "\t"} THEN strip(SubSeq(s, 1, Len(s) - 1))
    ELSE s

\* TwilioHandler.parse_start_event: the phone_number of the TwilioCallInfo
parse_start_event(phone) ==
    LET stripped == strip(replace(replace(replace(phone, CountryCode),
                                          << "+" >>), << " " >>))
    IN IF Len(stripped) > 10
       THEN SubSeq(stripped, Len(stripped) - 9, Len(stripped))
       ELSE stripped

(***************************************************************************)
(* Inbound frames.  "malformed" is a text frame json.loads or data.get     *)
(* fails on; "disconnect" is the transport closing (receive_text raises    *)
(* WebSocketDisconnect).                                                   *)
(***************************************************************************)
NoPayload == ""
Event(kind, call, stream, payload, phone) ==
    [event |-> kind, callSid |-> call, streamSid |-> stream,
     payload |-> payload, phone |-> phone]
StartEvents ==
    {Event("start", call, stream, NoPayload, phone) :
        call \in CallSids, stream \in StreamSids, phone \in Phones}
MediaEvents == {Event("media", "", "", p, << >>) : p \in Payloads}
\* Events the handler has no work for: connected, a mark echo, and "other",
\* an event of a kind the handler does not know
NoopKinds == {"connected", "mark", "other"}
PlainEvents ==
    {Event(k, "", "", NoPayload, << >>) :
        k \in NoopKinds \cup {"stop", "malformed", "disconnect"}}

\* Frames that the model lets queue up behind a busy handler; every other
\* frame is read as it arrives (its queueing would change nothing it does).
Queueable(e) == e.event \in {"stop", "disconnect"}

VARIABLES
    env,            \* the run's environment, fixed at the start
    heap,           \* the VoiceSession objects created so far
    sessions,       \* orchestrator.sessions: session id -> object (0: absent)
    stt_connection, \* orchestrator.stt.connection
    pc,             \* each handler's position
    session_id,     \* each handler's local session_id
    stream_sid,     \* each handler's local stream_sid
    inbox,          \* frames received on the socket, not yet read
    closed,         \* the transport has closed (inbound side saw it)
    cur,            \* the session object the suspended coroutine holds
    stt_req,        \* audio_16k of the transcription request in flight
    reply_len,      \* len(pcm_8k) of the audio being sent
    send_off,       \* the send loop's offset i
    n_media,        \* media frames queued or buffered so far
    \* history variables
    out,            \* per connection: the message last sent in this pass
    last_ret,       \* per connection: what this pass did: the kind of an
                    \* event without work, or how process_audio ended
    abandoned,      \* per connection: a stop or disconnect arrived while
                    \* the round trip of this pass was in flight
    started_by,     \* per object: the connection whose start created it
    end_notes,      \* per object: /session_end notifications attempted
    appended,       \* per object: every sample appended to audio_buffer
    transcribed,    \* per object: every sample handed to transcription
    n_flush,        \* per object: flushes
    vad,            \* per object: the segmenter fed every buffered frame
    stop_read,      \* per connection: a stop event has been read
    del_failed,     \* per connection: del self.sessions[...] raised KeyError
    transcript,     \* per connection: what _transcribe_audio returned in
                    \* this pass (process_audio's local, orchestrator.py:168)
    escalated,      \* per connection: calls of the escalation callback in
                    \* this pass
    n_fail,         \* per object: collaborator calls that failed, counted
                    \* up to env.max_fail
    phone_raw,      \* per object: the phone parameter of its start event
    rasa_req,       \* per connection: the message of the turn's request
                    \* to the dialogue engine in flight (None: no request)
    \* the functions exercised on their own
    seg,            \* a segmenter, the frames fed to it and what
                    \* process_chunk returned for each
    codec,          \* samples, their mu-law encoding and its decoding
    txt             \* a text and what the normalizer made of it

main_vars ==
    << env, heap, sessions, stt_connection, pc, session_id, stream_sid, inbox,
       closed, cur, stt_req, reply_len, send_off,
       n_media, out, last_ret, abandoned, started_by,
       end_notes, appended, transcribed, n_flush, vad, stop_read,
       del_failed, transcript, escalated, n_fail, phone_raw, rasa_req >>
unit_vars == << seg, codec, txt >>
vars == << main_vars, unit_vars >>

orch_vars == << env, heap, sessions, stt_connection >>
hist_obj_vars ==
    << started_by, end_notes, appended, transcribed, n_flush, vad >>
pass_vars == << out, last_ret, abandoned >>
send_vars == << reply_len, send_off >>
id_vars == << session_id, stream_sid >>
sock_vars == << inbox, closed >>
more_vars == << transcript, escalated, n_fail, phone_raw, rasa_req >>

\* VoiceSession(session_id, ...) with the dataclass defaults
VoiceSession(sid, phone) ==
    [session_id |-> sid, phone_number |-> phone,
     language |-> "hi-en", turn_count |-> 0,
     is_active |-> TRUE, audio_buffer |-> << >>, buffer_duration_ms |-> 0]

Objs == 1..Len(heap)

\* self.sessions.get(session_id)
get_session(sid) == IF sid \in DOMAIN sessions THEN sessions[sid] ELSE 0

NoMsg == [event |-> "", label |-> 0]

Range(f) == {f[i] : i \in DOMAIN f}

RoundTripPcs == {"stt", "rasa", "tts"}
SendPcs == {"send", "mark"}
GreetPcs == {"start_rasa", "greet_tts", "greet_send", "greet_mark"}
\* The handler is between two reads of the socket
BusyPcs == GreetPcs \cup RoundTripPcs \cup SendPcs

(***************************************************************************)
(* The functions exercised on their own: each has a specification of its   *)
(* own, whose Init draws the input and whose actions apply the function.   *)
(* Under the specifications of the handler these variables stay idle.      *)
(***************************************************************************)
NoSeg ==
    [v |-> VADState, fed |-> << >>, finals |-> << >>, calls |-> 0,
     speaking_ms |-> 0]
NoCodec == [pcm_in |-> << >>, mulaw |-> << >>, pcm_out |-> << >>]
NoTxt == [text |-> << >>, fn |-> "none", outs |-> << >>]

(***************************************************************************)
(* Environments.  conns: the connections that are opened; payloads: the    *)
(* media payloads that arrive; min_buffer_ms: MIN_BUFFER_DURATION_MS or    *)
(* its scaled value; max_media, max_starts: the frames buffered and the    *)
(* start events read over a run; speech_first: the caller speaks and then  *)
(* stays silent (no speech frame follows a quiet one); phones: the caller  *)
(* numbers of the start events; noops: the kinds of event without work     *)
(* that arrive; max_fail: the failed collaborator calls counted per        *)
(* session; texts: the texts the recognizer returns.                       *)
(***************************************************************************)
\* Two connections, callers that only speak, the threshold scaled
SharedEnv ==
    [conns |-> Conns, payloads |-> {"", "bad", "speech"},
     min_buffer_ms |-> MinBufferChunks * CHUNK_DURATION_MS,
     max_media |-> MaxMedia, max_starts |-> MaxStarts,
     speech_first |-> FALSE, phones |-> {ScenarioPhone},
     noops |-> {"mark"}, max_fail |-> 0, texts |-> RomanTexts]

\* One connection, every payload, the threshold scaled
TurnEnv ==
    [conns |-> {1}, payloads |-> Payloads,
     min_buffer_ms |-> MinBufferChunks * CHUNK_DURATION_MS,
     max_media |-> MaxMediaTurn, max_starts |-> MaxStarts,
     speech_first |-> FALSE, phones |-> {ScenarioPhone},
     noops |-> {"mark"}, max_fail |-> 0, texts |-> RomanTexts]

\* One connection and one call, the threshold of the source
VadEnv ==
    [conns |-> {1}, payloads |-> {"speech", "quiet"},
     min_buffer_ms |-> MIN_BUFFER_DURATION_MS,
     max_media |-> MaxMediaVad, max_starts |-> 1,
     speech_first |-> TRUE, phones |-> {ScenarioPhone},
     noops |-> {"mark"}, max_fail |-> 0, texts |-> RomanTexts]

\* One connection and one call of a single flush, every caller number
PhoneEnv ==
    [conns |-> {1}, payloads |-> {"speech"},
     min_buffer_ms |-> MinBufferChunks * CHUNK_DURATION_MS,
     max_media |-> MinBufferChunks, max_starts |-> 1,
     speech_first |-> FALSE, phones |-> Phones,
     noops |-> {"mark"}, max_fail |-> 0, texts |-> RomanTexts]

\* One connection and one call of a few flushes: every kind of event
\* without work, failed calls counted, a Devanagari transcript
CallEnv ==
    [conns |-> {1}, payloads |-> {"", "speech"},
     min_buffer_ms |-> MinBufferChunks * CHUNK_DURATION_MS,
     max_media |-> MaxFailures * MinBufferChunks, max_starts |-> 1,
     speech_first |-> FALSE, phones |-> {ScenarioPhone},
     noops |-> NoopKinds, max_fail |-> MaxFailures,
     texts |-> RomanTexts \cup {Svata}]

\* The handlers before any connection is accepted
InitMain(environment) ==
    /\ env = environment
    /\ heap = << >>
    /\ sessions = [s \in CallSids |-> 0]
    /\ stt_connection = None
    /\ pc = [c \in Conns |->
                IF c \in environment.conns THEN "recv" ELSE "off"]
    /\ session_id = [c \in Conns |-> None]
    /\ stream_sid = [c \in Conns |-> None]
    /\ inbox = [c \in Conns |-> << >>]
    /\ closed = [c \in Conns |-> FALSE]
    /\ cur = [c \in Conns |-> 0]
    /\ stt_req = [c \in Conns |-> << >>]
    /\ reply_len = [c \in Conns |-> 0]
    /\ send_off = [c \in Conns |-> 0]
    /\ n_media = 0
    /\ out = [c \in Conns |-> NoMsg]
    /\ last_ret = [c \in Conns |-> None]
    /\ abandoned = [c \in Conns |-> FALSE]
    /\ started_by = << >>
    /\ end_notes = << >>
    /\ appended = << >>
    /\ transcribed = << >>
    /\ n_flush = << >>
    /\ vad = << >>
    /\ stop_read = [c \in Conns |-> FALSE]
    /\ del_failed = [c \in Conns |-> FALSE]
    /\ transcript = [c \in Conns |-> NoTranscript]
    /\ escalated = [c \in Conns |-> 0]
    /\ n_fail = << >>
    /\ phone_raw = << >>
    /\ rasa_req = [c \in Conns |-> None]

InitWith(environment) ==
    /\ InitMain(environment)
    /\ seg = NoSeg
    /\ codec = NoCodec
    /\ txt = NoTxt

Init == InitWith(SharedEnv)
InitTurn == InitWith(TurnEnv)
InitVad == InitWith(VadEnv)
InitPhone == InitWith(PhoneEnv)
InitCall == InitWith(CallEnv)

(***************************************************************************)
(* The environment.  A frame that reaches a busy handler waits in inbox    *)
(* until the handler next awaits receive_text (Arrive); a frame that       *)
(* reaches a handler waiting in receive_text is read at once.              *)
(***************************************************************************)
Arrive(c, e) ==
    /\ pc[c] \in BusyPcs
    /\ ~closed[c]
    /\ Len(inbox[c]) < MaxInbox
    /\ Queueable(e)
    /\ inbox' = [inbox EXCEPT ![c] = Append(@, e)]
    /\ closed' = [closed EXCEPT ![c] = (e.event = "disconnect")]
    /\ abandoned' = [abandoned EXCEPT ![c] =
            @ \/ (e.event \in {"stop", "disconnect"}
                    /\ pc[c] \in RoundTripPcs)]
    /\ UNCHANGED << unit_vars, orch_vars, hist_obj_vars, pc, id_vars, cur,
                    stt_req, send_vars, n_media, out, last_ret, stop_read,
                    del_failed, more_vars >>

\* raw = await websocket.receive_text() returns frame e (main.py:208): the
\* oldest queued frame, or a frame arriving now
Read(c, e) ==
    /\ pc[c] = "recv"
    /\ IF inbox[c] # << >>
       THEN /\ e = Head(inbox[c])
            /\ inbox' = [inbox EXCEPT ![c] = Tail(@)]
            /\ UNCHANGED closed
       ELSE /\ ~closed[c]
            /\ closed' = [closed EXCEPT ![c] = (e.event = "disconnect")]
            /\ UNCHANGED inbox

\* The pass of the loop is over: the handler calls receive_text again
\* (main.py:207-208).  What the pass did is no longer recorded.
Loop(c) ==
    /\ pc[c] = "loop"
    /\ pc' = [pc EXCEPT ![c] = "recv"]
    /\ out' = [out EXCEPT ![c] = NoMsg]
    /\ last_ret' = [last_ret EXCEPT ![c] = None]
    /\ abandoned' = [abandoned EXCEPT ![c] = FALSE]
    /\ transcript' = [transcript EXCEPT ![c] = NoTranscript]
    /\ escalated' = [escalated EXCEPT ![c] = 0]
    /\ UNCHANGED << unit_vars, orch_vars, hist_obj_vars, id_vars, sock_vars,
                    cur, stt_req, send_vars, n_media,
                    stop_read, del_failed, n_fail, phone_raw, rasa_req >>

(***************************************************************************)
(* VoiceOrchestrator.end_session up to its first suspension, as called by  *)
(* the handler of connection c (main.py:290-291 and the three except       *)
(* branches, 296-315).  stt.stop_streaming() does nothing and does not     *)
(* suspend while stt.connection is None.                                   *)
(***************************************************************************)
\* The loop goes on after the stop branch: no break at main.py:292
handler_continue(c) == pc' = [pc EXCEPT ![c] = "loop"]

\* The handler returns: the break after a stop (main.py:292), or the end of
\* an except branch (main.py:300, 308, 315)
handler_exit(c) == pc' = [pc EXCEPT ![c] = "done"]

end_session_begin(c) ==
    LET sid == session_id[c]
        o == get_session(sid)
    IN IF sid = None \/ o = 0
       THEN /\ handler_exit(c)
            /\ UNCHANGED << heap, cur, end_notes >>
       ELSE /\ heap' = [heap EXCEPT ![o].is_active = FALSE]
            /\ cur' = [cur EXCEPT ![c] = o]
            /\ IF stt_connection = None
               THEN /\ pc' = [pc EXCEPT ![c] = "end_rasa"]
                    /\ end_notes' = [end_notes EXCEPT ![o] = @ + 1]
               ELSE /\ pc' = [pc EXCEPT ![c] = "end_stop"]
                    /\ UNCHANGED end_notes

\* A frame the handler has no work for ends the handler
ignore_fatal(c, what) ==
    /\ pc' = [pc EXCEPT ![c] = "done"]
    /\ last_ret' = [last_ret EXCEPT ![c] = what]

\* The pass read a frame the handler has no work for
ignore(c, what) ==
    /\ pc' = [pc EXCEPT ![c] = "loop"]
    /\ last_ret' = [last_ret EXCEPT ![c] = what]

\* connected, mark and events of any other kind: logged or ignored
\* (main.py:211-212, 282-284, and no branch at all for another kind)
RecvNoop(c, e) ==
    /\ e.event \in NoopKinds \cap env.noops
    /\ Read(c, e)
    /\ ignore(c, e.event)
    /\ UNCHANGED << unit_vars, orch_vars, hist_obj_vars, id_vars, cur,
                    stt_req, send_vars, n_media, out, abandoned, stop_read,
                    del_failed, more_vars >>

\* main.py:215-233 and start_session up to its await of _send_to_rasa
RecvStart(c, e) ==
    /\ e.event = "start"
    /\ Len(heap) < env.max_starts
    /\ e.callSid = FirstCallSid \/ heap # << >>
    /\ e.phone \in env.phones
    /\ Read(c, e)
    /\ LET sid == IF e.callSid # "" THEN e.callSid ELSE e.streamSid
           o == Len(heap) + 1
       IN /\ stream_sid' = [stream_sid EXCEPT ![c] = e.streamSid]
          /\ session_id' = [session_id EXCEPT ![c] = sid]
          /\ heap' = Append(heap,
                  VoiceSession(sid, parse_start_event(e.phone)))
          /\ sessions' = [sessions EXCEPT ![sid] = o]
          /\ cur' = [cur EXCEPT ![c] = o]
          /\ started_by' = Append(started_by, c)
          /\ end_notes' = Append(end_notes, 0)
          /\ appended' = Append(appended, << >>)
          /\ transcribed' = Append(transcribed, << >>)
          /\ n_flush' = Append(n_flush, 0)
          /\ vad' = Append(vad, VADState)
          /\ n_fail' = Append(n_fail, 0)
          /\ phone_raw' = Append(phone_raw, e.phone)
    /\ pc' = [pc EXCEPT ![c] = "start_rasa"]
    /\ UNCHANGED << unit_vars, env, stt_connection, stt_req, send_vars,
                    n_media, pass_vars, stop_read, del_failed,
                    transcript, escalated, rasa_req >>

\* start_session resumes after _send_to_rasa (which swallows every error);
\* the handler builds the greeting and awaits its synthesis (main.py:236-241)
StartRasaDone(c) ==
    /\ pc[c] = "start_rasa"
    /\ pc' = [pc EXCEPT ![c] = "greet_tts"]
    /\ UNCHANGED << unit_vars, orch_vars, hist_obj_vars, id_vars, sock_vars,
                    cur, stt_req, send_vars, n_media,
                    pass_vars, stop_read, del_failed, more_vars >>

\* Back to the top of the loop: the locals of the finished branch are dead
to_recv(c) ==
    /\ pc' = [pc EXCEPT ![c] = "loop"]
    /\ cur' = [cur EXCEPT ![c] = 0]
    /\ reply_len' = [reply_len EXCEPT ![c] = 0]
    /\ send_off' = [send_off EXCEPT ![c] = 0]

\* What the handler does with audio of n bytes to send: the for loop of
\* _send_audio_to_twilio runs only for n > 0, then comes the mark.
begin_send(c, n, send_pc, mark_pc) ==
    /\ reply_len' = [reply_len EXCEPT ![c] = n]
    /\ send_off' = [send_off EXCEPT ![c] = 0]
    /\ pc' = [pc EXCEPT ![c] = IF n > 0 THEN send_pc ELSE mark_pc]
    /\ UNCHANGED cur

\* The label of a reply's mark (main.py:274-278): the registered session's
\* turn_count, 0 when the session is gone.  The greeting's mark is -1.
response_mark(c) ==
    LET o == get_session(session_id[c])
    IN IF o = 0 THEN 0 ELSE heap[o].turn_count
greeting_mark == -1

\* The greeting's synthesis returns n bytes (ok) or raises (main.py:250)
GreetTtsDone(c, ok, n) ==
    /\ pc[c] = "greet_tts"
    /\ IF ok
       THEN begin_send(c, n, "greet_send", "greet_mark")
       ELSE to_recv(c) /\ UNCHANGED send_vars
    /\ UNCHANGED << unit_vars, orch_vars, hist_obj_vars, id_vars, sock_vars,
                    stt_req, n_media, pass_vars, stop_read,
                    del_failed, more_vars >>

\* The loop of _send_audio_to_twilio with one index too many
more_chunks_le(c) == send_off[c] + pcm_chunk_size <= reply_len[c]

\* range(0, len(pcm_8k), pcm_chunk_size) has an index after the one of the
\* chunk being sent (main.py:184)
more_chunks(c) == send_off[c] + pcm_chunk_size < reply_len[c]

\* One websocket.send_text of _send_audio_to_twilio (main.py:184-189), for
\* the greeting or a reply.  On a closed transport it raises, and both
\* callers catch the error and go back to reading (main.py:250, 280).
SendFrame(c) ==
    /\ pc[c] \in {"greet_send", "send"}
    /\ IF closed[c]
       THEN /\ to_recv(c)
            /\ UNCHANGED out
       ELSE /\ out' = [out EXCEPT ![c] =
                    [event |-> "media", label |-> send_off[c]]]
            /\ send_off' = [send_off EXCEPT ![c] = @ + pcm_chunk_size]
            /\ pc' = [pc EXCEPT ![c] =
                    IF more_chunks(c) THEN @
                    ELSE IF @ = "send" THEN "mark" ELSE "greet_mark"]
            /\ UNCHANGED << cur, reply_len >>
    /\ UNCHANGED << unit_vars, orch_vars, hist_obj_vars, id_vars, sock_vars, stt_req,
                    n_media, last_ret, abandoned, stop_read, del_failed,
                    more_vars >>

\* The send_text of the mark that follows the audio (main.py:245-248, 274-279)
SendMark(c) ==
    /\ pc[c] \in {"greet_mark", "mark"}
    /\ IF closed[c]
       THEN UNCHANGED out
       ELSE out' = [out EXCEPT ![c] =
                    [event |-> "mark",
                     label |-> IF pc[c] = "mark" THEN response_mark(c)
                               ELSE greeting_mark]]
    /\ to_recv(c)
    /\ UNCHANGED << unit_vars, orch_vars, hist_obj_vars, id_vars, sock_vars, stt_req,
                    n_media, last_ret, abandoned, stop_read, del_failed,
                    more_vars >>

(***************************************************************************)
(* A media event (main.py:253-281) and process_audio up to its first       *)
(* suspension (orchestrator.py:145-168).                                   *)
(***************************************************************************)
\* process_audio's guard: the session is registered and active
session_usable(o) == o # 0 /\ heap[o].is_active

\* orchestrator.py:153-154
accumulate(s, pcm_audio_8k) ==
    [s EXCEPT !.audio_buffer = @ \o pcm_audio_8k,
              !.buffer_duration_ms = @ + CHUNK_DURATION_MS]

\* The comparison of orchestrator.py:156 taken as <=
keep_buffering_le(s) == s.buffer_duration_ms <= env.min_buffer_ms

\* orchestrator.py:156: keep buffering (env.min_buffer_ms is
\* MIN_BUFFER_DURATION_MS, or its scaled value)
keep_buffering(s) == s.buffer_duration_ms < env.min_buffer_ms

\* A flush that resets the duration and keeps the buffered audio
reset_duration_only(s) == [s EXCEPT !.buffer_duration_ms = 0]

\* orchestrator.py:160-162
reset_buffer(s) ==
    [s EXCEPT !.audio_buffer = << >>, !.buffer_duration_ms = 0]

RecvMedia(c, e) ==
    /\ e.event = "media"
    /\ e.payload \in env.payloads
    /\ Read(c, e)
    /\ LET payload == e.payload
           o == get_session(session_id[c])
           pcm == decode_audio(payload)
       IN IF session_id[c] = None \/ payload = ""
          THEN \* continue (main.py:254-259)
               /\ ignore(c, IF session_id[c] = None THEN "no_session"
                                                    ELSE "no_payload")
               /\ UNCHANGED << heap, cur, stt_req, appended, transcribed,
                               n_flush, vad, n_media >>
          ELSE IF payload = "bad"
          THEN \* decode_audio raises, logged at main.py:280
               UNCHANGED << heap, pc, cur, stt_req, appended, transcribed,
                            n_flush, vad, last_ret, n_media >>
          ELSE IF ~session_usable(o)
          THEN /\ last_ret' = [last_ret EXCEPT ![c] = "invalid"]
               /\ pc' = [pc EXCEPT ![c] = "loop"]
               /\ UNCHANGED << heap, cur, stt_req, appended, transcribed,
                               n_flush, vad, n_media >>
          ELSE LET s == accumulate(heap[o], pcm)
               IN /\ n_media < env.max_media
                  /\ env.speech_first /\ payload = "speech"
                        => "q" \notin Range(appended[o])
                  /\ n_media' = n_media + 1
                  /\ appended' = [appended EXCEPT ![o] = @ \o pcm]
                  /\ vad' = [vad EXCEPT ![o] =
                          process_chunk(@, pcm, CHUNK_DURATION_MS)]
                  /\ IF keep_buffering(s)
                     THEN /\ heap' = [heap EXCEPT ![o] = s]
                          /\ last_ret' = [last_ret EXCEPT ![c] = "buffering"]
                          /\ pc' = [pc EXCEPT ![c] = "loop"]
                          /\ UNCHANGED << cur, stt_req, transcribed,
                                          n_flush >>
                     ELSE /\ heap' = [heap EXCEPT ![o] = reset_buffer(s)]
                          /\ stt_req' = [stt_req EXCEPT ![c] =
                                  resample_8k_to_16k(s.audio_buffer)]
                          /\ transcribed' = [transcribed EXCEPT ![o] =
                                  @ \o s.audio_buffer]
                          /\ n_flush' = [n_flush EXCEPT ![o] = @ + 1]
                          /\ cur' = [cur EXCEPT ![c] = o]
                          /\ pc' = [pc EXCEPT ![c] = "stt"]
                          /\ last_ret' = [last_ret EXCEPT ![c] = "pending"]
    /\ UNCHANGED << unit_vars, env, sessions, stt_connection, id_vars, send_vars, out,
                    abandoned, started_by, end_notes, stop_read, del_failed,
                    more_vars >>

\* The turn is tried again: the transcription request is made once more
return_retry(c, how) ==
    /\ pc' = [pc EXCEPT ![c] = "stt"]
    /\ last_ret' = [last_ret EXCEPT ![c] = how]
    /\ UNCHANGED << cur, send_vars, stt_req >>

\* process_audio returns (None, or by an exception the handler logs)
\* before any audio is synthesized
return_none(c, how) ==
    /\ to_recv(c)
    /\ last_ret' = [last_ret EXCEPT ![c] = how]
    /\ stt_req' = [stt_req EXCEPT ![c] = << >>]

\* The confidence gate with a floor one hundredth lower
low_confidence_below(t) == t.confidence < MIN_CONFIDENCE_THRESHOLD - 1

\* orchestrator.py:174
low_confidence(t) == t.confidence < MIN_CONFIDENCE_THRESHOLD

\* A collaborator call of session o's round trip ended: it is counted when
\* it failed (an exception or a timeout)
count_call(o, ok) ==
    n_fail' = [n_fail EXCEPT ![o] =
                  IF ~ok /\ @ < env.max_fail THEN @ + 1 ELSE @]

\* google_stt.transcribe returns t, or raises (ok = FALSE), which
\* _transcribe_audio turns into None (orchestrator.py:311-332); then the
\* empty-text and confidence gates, the language switch and the await of
\* _send_to_rasa (orchestrator.py:168-198)
SttDone(c, ok, t) ==
    /\ pc[c] = "stt"
    /\ t.text \in env.texts
    /\ ~ok => t = NoTranscript
    /\ transcript' = [transcript EXCEPT ![c] = t]
    /\ count_call(cur[c], ok)
    /\ LET o == cur[c]
           detected_lang == detect_from_text(t.text)
       IN IF ~t.found \/ blank(t.text)
          THEN /\ return_none(c, "no_transcript")
               /\ UNCHANGED << heap, rasa_req >>
          ELSE IF low_confidence(t)
          THEN /\ return_none(c, "low_confidence")
               /\ UNCHANGED << heap, rasa_req >>
          ELSE /\ heap' = [heap EXCEPT ![o].language =
                       IF should_switch_language(@, detected_lang)
                       THEN detected_lang ELSE @]
               /\ rasa_req' = [rasa_req EXCEPT ![c] = rasa_message(t)]
               /\ stt_req' = [stt_req EXCEPT ![c] = << >>]
               /\ pc' = [pc EXCEPT ![c] = "rasa"]
               /\ UNCHANGED << last_ret, cur, send_vars >>
    /\ UNCHANGED << unit_vars, env, sessions, stt_connection, hist_obj_vars, id_vars,
                    sock_vars, n_media, out, abandoned,
                    stop_read, del_failed, escalated, phone_raw >>

\* A turn counted only when the dialogue engine answered
count_turn_replied(s, responses) ==
    IF responses = << >> THEN s ELSE [s EXCEPT !.turn_count = @ + 1]

\* session.turn_count += 1 (orchestrator.py:201), whatever _send_to_rasa
\* returned
count_turn(s, responses) == [s EXCEPT !.turn_count = @ + 1]

\* _send_to_rasa returns (orchestrator.py:199-216), with no responses when
\* its request failed (ok = FALSE, orchestrator.py:353-358): the turn is
\* counted, then handoff (the escalation callback is awaited when one is
\* set), or the reply text goes to synthesis
RasaDone(c, ok, responses) ==
    /\ pc[c] = "rasa"
    /\ ~ok => responses = << >>
    /\ count_call(cur[c], ok)
    /\ transcript' = [transcript EXCEPT ![c] = NoTranscript]
    /\ rasa_req' = [rasa_req EXCEPT ![c] = None]
    /\ heap' = [heap EXCEPT ![cur[c]] = count_turn(@, responses)]
    /\ IF _should_handoff(responses)
       THEN /\ return_none(c, "handoff")
            /\ escalated' = [escalated EXCEPT ![c] =
                    IF on_handoff # None THEN @ + 1 ELSE @]
       ELSE /\ UNCHANGED escalated
            /\ IF _extract_response_text(responses) # ""
               THEN /\ pc' = [pc EXCEPT ![c] = "tts"]
                    /\ UNCHANGED << last_ret, cur, send_vars, stt_req >>
               ELSE return_none(c, "no_text")
    /\ UNCHANGED << unit_vars, env, sessions, stt_connection, hist_obj_vars, id_vars,
                    sock_vars, n_media, out, abandoned,
                    stop_read, del_failed, phone_raw >>

\* synthesize_for_twilio returns n bytes or raises (orchestrator.py:216-218);
\* the handler sends a non-empty reply when it has a stream sid
\* (main.py:270-273) and logs an exception (main.py:280)
TtsDone(c, ok, n) ==
    /\ pc[c] = "tts"
    /\ IF ok /\ n > 0 /\ stream_sid[c] \notin {None, ""}
       THEN begin_send(c, n, "send", "mark")
       ELSE to_recv(c) /\ UNCHANGED send_vars
    /\ last_ret' = [last_ret EXCEPT ![c] =
            IF ~ok THEN "error" ELSE IF n > 0 THEN "audio" ELSE "empty_audio"]
    /\ count_call(cur[c], ok)
    /\ UNCHANGED << unit_vars, orch_vars, hist_obj_vars, id_vars, sock_vars,
                    stt_req, n_media, out, abandoned,
                    stop_read, del_failed, transcript, escalated,
                    phone_raw, rasa_req >>

(***************************************************************************)
(* The ways the handler's loop ends.                                       *)
(***************************************************************************)
\* A stop event (main.py:287-292): end_session, then break
RecvStop(c, e) ==
    /\ e.event = "stop"
    /\ Read(c, e)
    /\ stop_read' = [stop_read EXCEPT ![c] = TRUE]
    /\ end_session_begin(c)
    /\ UNCHANGED << unit_vars, env, sessions, stt_connection, id_vars, stt_req,
                    send_vars, n_media, pass_vars, started_by, appended,
                    transcribed, n_flush, vad, del_failed, more_vars >>

\* receive_text raises WebSocketDisconnect (main.py:294-300), or json.loads /
\* data.get / parse_start_event raise on the frame read (main.py:309-315):
\* each except branch calls end_session inside try / except: pass
RecvError(c, e) ==
    /\ e.event \in {"malformed", "disconnect"}
    /\ Read(c, e)
    /\ end_session_begin(c)
    /\ UNCHANGED << unit_vars, env, sessions, stt_connection, id_vars, stt_req,
                    send_vars, n_media, pass_vars, started_by, appended,
                    transcribed, n_flush, vad, stop_read, del_failed,
                    more_vars >>

\* end_session resumes after _send_to_rasa (orchestrator.py:306): del raises
\* KeyError when the entry is gone.  After a stop the KeyError reaches the
\* handler's except Exception, whose end_session finds no session; in the
\* except branches it is swallowed.  Either way the handler returns.
EndRasaDone(c) ==
    /\ pc[c] = "end_rasa"
    /\ IF get_session(session_id[c]) # 0
       THEN /\ sessions' = [sessions EXCEPT ![session_id[c]] = 0]
            /\ UNCHANGED del_failed
       ELSE /\ del_failed' = [del_failed EXCEPT ![c] = TRUE]
            /\ UNCHANGED sessions
    /\ handler_exit(c)
    /\ cur' = [cur EXCEPT ![c] = 0]
    /\ UNCHANGED << unit_vars, env, heap, stt_connection, hist_obj_vars, id_vars, sock_vars,
                    stt_req, send_vars, n_media, pass_vars,
                    stop_read, more_vars >>

Events == StartEvents \cup MediaEvents \cup PlainEvents

Next ==
    \E c \in Conns :
        \/ \E e \in PlainEvents : Arrive(c, e)
        \/ Loop(c)
        \/ \E e \in PlainEvents : RecvNoop(c, e)
        \/ \E e \in StartEvents : RecvStart(c, e)
        \/ StartRasaDone(c)
        \/ \E ok \in BOOLEAN, n \in ReplyLens : GreetTtsDone(c, ok, n)
        \/ SendFrame(c)
        \/ SendMark(c)
        \/ \E e \in MediaEvents : RecvMedia(c, e)
        \/ \E ok \in BOOLEAN, t \in Transcripts : SttDone(c, ok, t)
        \/ \E ok \in BOOLEAN, r \in RasaResponses : RasaDone(c, ok, r)
        \/ \E ok \in BOOLEAN, n \in ReplyLens : TtsDone(c, ok, n)
        \/ \E e \in PlainEvents : RecvStop(c, e)
        \/ \E e \in PlainEvents : RecvError(c, e)
        \/ EndRasaDone(c)

Spec == Init /\ [][Next]_vars
SpecTurn == InitTurn /\ [][Next]_vars
SpecVad == InitVad /\ [][Next]_vars
SpecPhone == InitPhone /\ [][Next]_vars
SpecCall == InitCall /\ [][Next]_vars

(***************************************************************************)
(* Claims.                                                                 *)
(***************************************************************************)
\* The session object whose round trip (transcribe -> dialogue -> synthesis)
\* connection c's process_audio call has in flight, 0 when there is none
in_flight(c) == IF pc[c] \in RoundTripPcs THEN cur[c] ELSE 0

\* The session object whose reply connection c is sending, 0 when none
replying(c) == IF pc[c] \in SendPcs THEN cur[c] ELSE 0

\* C1: for each session at most one transcribe -> dialogue -> synthesis
\* round trip is in flight at any time: no flush of a session starts while
\* a round trip of that session has not completed.
C1_SingleFlight ==
    \A c1, c2 \in Conns :
        in_flight(c1) # 0 /\ in_flight(c1) = in_flight(c2) => c1 = c2

\* C2: within one session turns are strictly sequential on the outbound
\* stream: while the media frames and the mark of a turn's reply are being
\* sent, no later turn of that session has been flushed (none is in its
\* round trip, none is sending its own reply).
C2_TurnsSequential ==
    \A c1, c2 \in Conns :
        /\ replying(c1) # 0
        /\ replying(c1) \in {in_flight(c2), replying(c2)}
        => c1 = c2

\* C3: is_active never returns to true, and once a session is inactive
\* process_audio leaves its audio_buffer, buffer_duration_ms and turn_count
\* unchanged and returns no audio for it.
C3_InactiveIsTerminal ==
    [][\A o \in Objs :
           ~heap[o].is_active =>
               /\ ~heap'[o].is_active
               /\ heap'[o].audio_buffer = heap[o].audio_buffer
               /\ heap'[o].buffer_duration_ms = heap[o].buffer_duration_ms
               /\ heap'[o].turn_count = heap[o].turn_count
               /\ \A c \in Conns :
                      cur[c] = o /\ last_ret'[c] = "audio"
                          => last_ret[c] = "audio"]_vars


\* Every handler that has ended so far ended on a stop event
only_stops == \A c \in Conns : pc[c] \in {"end_rasa", "done"} => stop_read[c]

\* C4: stop events for the same session are idempotent: the session-end
\* notification is sent once, the session is removed from the registry
\* once, and a further stop changes nothing and raises no error.
C4_StopIdempotent ==
    only_stops =>
        /\ \A o \in Objs : end_notes[o] <= 1
        /\ \A c \in Conns : ~del_failed[c]

\* C5: when a connection's handler has terminated, every session it
\* started is marked inactive, is out of the registry, and has had a
\* session-end notification attempted.
C5_TornDown ==
    \A c \in Conns, o \in Objs :
        pc[c] = "done" /\ started_by[o] = c =>
            /\ ~heap[o].is_active
            /\ sessions[heap[o].session_id] # o
            /\ end_notes[o] >= 1

\* C6: once a stop event is read on a connection the handler ends the
\* session registered under the connection's id and processes nothing
\* further: it only finishes end_session and returns, sends no media frame
\* and no mark, starts no flush, and when it returns no session is
\* registered under its id -- also when that session was already released
\* or never started.
C6_StopHonoured ==
    [][\A c \in Conns :
           LET sid == session_id[c]
           IN stop_read'[c] =>
                  /\ pc'[c] \in {"end_rasa", "done"}
                  /\ out'[c] = out[c]
                  /\ stt_req'[c] = << >>
                  /\ ~stop_read[c] /\ sid # None /\ get_session(sid) # 0
                        => ~heap'[get_session(sid)].is_active
                  /\ pc[c] # "done" /\ pc'[c] = "done" /\ sid # None
                        => sessions'[sid] = 0]_vars

\* A stop was read on a connection that had started a session; the handler
\* has returned and the session is out of the registry
C6_Witness ==
    \E c \in Conns :
        /\ stop_read[c] /\ pc[c] = "done"
        /\ session_id[c] # None /\ sessions[session_id[c]] = 0
        /\ \E o \in Objs : started_by[o] = c /\ end_notes[o] = 1

\* C7: a stop or a disconnection that arrives while a round trip is in
\* flight takes the session out of service without waiting for the round
\* trip to complete (when the round trip is over and its reply is at hand
\* the session is no longer active), and no reply audio of that turn is
\* sent.
C7_AbandonedTurn ==
    \A c \in Conns :
        LET o == get_session(session_id[c])
        IN abandoned[c] =>
               /\ pc[c] \in SendPcs /\ o # 0 => ~heap[o].is_active
               /\ out[c].event # "media"

\* C8: a flush is triggered as soon as buffer_duration_ms reaches the
\* threshold or the segmenter reports should_finalize for the frame just
\* buffered: after such a frame the buffer has been reset.
C8_FlushOnFinalize ==
    \A o \in Objs :
        /\ heap[o].buffer_duration_ms < env.min_buffer_ms
        /\ vad[o].should_finalize => heap[o].buffer_duration_ms = 0

\* The audio appended to session o since its previous flush
since_flush(o) ==
    SubSeq(appended'[o], Len(transcribed[o]) + 1, Len(appended'[o]))

\* C9: each flush resets audio_buffer to empty and buffer_duration_ms to 0
\* and starts exactly one transcription request, whose input is the audio
\* appended since the previous flush, resampled; every sample appended is
\* either still buffered or was handed to transcription exactly once.
C9_FlushExact ==
    [][\A o \in Objs :
           /\ n_flush'[o] \in {n_flush[o], n_flush[o] + 1}
           /\ n_flush'[o] # n_flush[o] =>
                  /\ heap'[o].audio_buffer = << >>
                  /\ heap'[o].buffer_duration_ms = 0
                  /\ \E c \in Conns :
                         /\ pc[c] = "recv" /\ pc'[c] = "stt" /\ cur'[c] = o
                         /\ stt_req'[c] = resample_8k_to_16k(since_flush(o))
                         /\ \A d \in Conns \ {c} :
                                pc'[d] = pc[d] /\ stt_req'[d] = stt_req[d]
           /\ transcribed'[o] \o heap'[o].audio_buffer = appended'[o]]_vars

\* A session's second flush is in flight, with a request made of a single
\* sample (the other frames of the buffer decoded to nothing)
C9_Witness ==
    \E c \in Conns :
        /\ pc[c] = "stt" /\ cur[c] # 0
        /\ n_flush[cur[c]] = 2
        /\ stt_req[c] = << "S" >>

\* C10: for every session 0 <= buffer_duration_ms, and the duration is
\* strictly below the threshold in every state between two steps of the
\* handlers; inside process_audio it reaches the threshold at most
\* (one more chunk never takes it past the threshold).
C10_BufferBounded ==
    \A o \in Objs :
        /\ 0 <= heap[o].buffer_duration_ms
        /\ heap[o].buffer_duration_ms < env.min_buffer_ms
        /\ heap[o].buffer_duration_ms + CHUNK_DURATION_MS <= env.min_buffer_ms

\* After a flush, a session is one chunk short of the next one
C10_Witness ==
    \E o \in Objs :
        /\ n_flush[o] >= 1
        /\ heap[o].buffer_duration_ms + CHUNK_DURATION_MS = env.min_buffer_ms

\* The frames buffered for session o so far (a frame is one sample here)
frames(o) == Len(appended[o])

\* The speech-level frames among them
speech_frames(o) ==
    Cardinality({i \in 1..Len(appended[o]) : appended[o][i] = "S"})

\* C11: frames totalling up to 3.0 s of silence (150 frames of 20 ms)
\* trigger no flush: no transcription request has been started for the
\* session and everything buffered is still in audio_buffer.
C11_SilenceNoFlush ==
    \A o \in Objs :
        speech_frames(o) = 0 /\ frames(o) * CHUNK_DURATION_MS <= 3000 =>
            /\ n_flush[o] = 0
            /\ heap[o].audio_buffer = appended[o]

\* C12: 2.5 s of speech-level frames followed by up to 0.6 s of silence
\* produce exactly one flush, at the frame that completes 0.5 s of trailing
\* silence; the buffer is empty after that flush (it holds only the frames
\* that came later), and turn_count is one once the flush has produced an
\* accepted transcript and a reply, and never more.
C12_OneFlush ==
    \A o \in Objs :
        /\ speech_frames(o) * CHUNK_DURATION_MS = 2500
        /\ frames(o) * CHUNK_DURATION_MS <= 3100
        => /\ n_flush[o] =
                  (IF frames(o) * CHUNK_DURATION_MS >= 3000 THEN 1 ELSE 0)
           /\ frames(o) * CHUNK_DURATION_MS = 3000 =>
                  heap[o].audio_buffer = << >> /\ vad[o].should_finalize
           /\ transcribed[o] \o heap[o].audio_buffer = appended[o]
           /\ heap[o].turn_count <= n_flush[o]
           /\ \A c \in Conns :
                  cur[c] = o /\ pc[c] \in {"tts", "send", "mark"} =>
                      heap[o].turn_count = 1

\* The whole input has been fed: one flush, one turn counted, and the five
\* frames that followed the flush are buffered
C12_Witness ==
    \E o \in Objs :
        /\ speech_frames(o) * CHUNK_DURATION_MS = 2500
        /\ frames(o) * CHUNK_DURATION_MS = 3100
        /\ n_flush[o] = 1 /\ heap[o].turn_count = 1
        /\ Len(heap[o].audio_buffer) = 5

\* A transcript that is missing, empty or below the confidence floor
dropped(t) ==
    ~t.found \/ t.text \in {"", " "} \/ t.confidence < MIN_CONFIDENCE_THRESHOLD

\* C13: a transcript that is missing, empty or has confidence below the
\* floor is dropped silently: the pass ends with no request to the dialogue
\* engine, nothing synthesized, returned or sent, and session.language and
\* turn_count (the whole session object) unchanged.
C13_DroppedSilently ==
    [][\A c \in Conns :
           pc[c] = "stt" /\ pc'[c] # "stt" /\ dropped(transcript'[c]) =>
               /\ pc'[c] = "loop"
               /\ last_ret'[c] \in {"no_transcript", "low_confidence"}
               /\ reply_len'[c] = 0 /\ out' = out
               /\ heap' = heap]_vars

\* A transcript one hundredth below the floor was dropped on a session
\* that has counted no turn
C13_Witness ==
    \E c \in Conns :
        /\ pc[c] = "loop" /\ last_ret[c] = "low_confidence"
        /\ transcript[c].found /\ transcript[c].text = "kya hai"
        /\ transcript[c].confidence = MIN_CONFIDENCE_THRESHOLD - 1
        /\ \E o \in Objs : n_flush[o] = 1 /\ heap[o].turn_count = 0

\* C14: a single transcription, dialogue or synthesis call that fails (an
\* exception or a timeout) yields no reply audio for the turn and is not
\* retried (the pass is over, nothing is sent, no request is in flight),
\* and the session stays active and registered.
C14_FailureIsSilence ==
    [][\A c \in Conns, o \in Objs :
           /\ pc[c] \in RoundTripPcs /\ cur[c] = o
           /\ n_fail'[o] > n_fail[o]
           => /\ pc'[c] = "loop"
              /\ last_ret'[c] # "audio" /\ reply_len'[c] = 0
              /\ out' = out /\ stt_req'[c] = << >>
              /\ heap'[o].is_active
              /\ sessions'[heap[o].session_id] = o]_vars

\* After a failed call the session was flushed again, and a second call
\* failed: later frames were still processed
C14_Witness ==
    \E o \in Objs :
        /\ n_fail[o] = 2 /\ n_flush[o] = 2
        /\ heap[o].is_active /\ sessions[heap[o].session_id] = o

\* C15: once the failed collaborator calls of a session reach the threshold
\* the session has been ended (it is no longer active).
C15_RepeatedFailuresDrain ==
    \A o \in Objs : n_fail[o] >= MaxFailures => ~heap[o].is_active

\* C16: process_audio never ends by an exception: whatever fails, it
\* returns normally.
C16_NothingRaised ==
    \A c \in Conns : last_ret[c] # "error"

\* C17: when the dialogue engine's reply signals a handoff, nothing is
\* synthesized, no audio is returned or sent for the turn, and the
\* escalation callback is called exactly once in that turn.
C17_HandoffEscalates ==
    \A c \in Conns :
        last_ret[c] = "handoff" =>
            /\ reply_len[c] = 0 /\ out[c] = NoMsg
            /\ escalated[c] = 1

\* The values of VoiceSession.language
Languages == {"hi", "en", "hi-en"}

\* C18: session.language changes only after an accepted transcript, when
\* the current language is not 'hi-en' and the detected language is the
\* other one of 'hi' / 'en' (should_switch_language says so for exactly
\* these pairs); in every other case it is unchanged, and it is always one
\* of 'hi', 'en', 'hi-en'.
C18_LanguageSwitch ==
    [][/\ \A current, detected \in Languages :
              should_switch_language(current, detected) <=>
                  /\ current # "hi-en" /\ detected # "hi-en"
                  /\ detected # current
       /\ \A o \in 1..Len(heap') : heap'[o].language \in Languages
       /\ \A o \in Objs :
              heap'[o].language # heap[o].language =>
                  /\ heap[o].language # "hi-en"
                  /\ {heap[o].language, heap'[o].language} = {"hi", "en"}
                  /\ \E c \in Conns :
                         /\ pc[c] = "stt" /\ cur[c] = o
                         /\ ~dropped(transcript'[c])
                         /\ detect_from_text(transcript'[c].text)
                                = heap'[o].language]_vars

\* An accepted transcript in English on a session whose language is
\* 'hi-en': the language stays as it is
C18_Witness ==
    \E c \in Conns :
        /\ pc[c] = "rasa" /\ cur[c] # 0
        /\ transcript[c].text = "please help"
        /\ ~dropped(transcript[c])
        /\ heap[cur[c]].language = "hi-en"

IsDigit(ch) == ch \in Digits

\* The canonical local form of a caller number: the country-code prefix and
\* every character that is not a digit removed, then the last 10 digits
canonical(raw) ==
    LET local == IF Len(raw) >= Len(CountryCode)
                        /\ SubSeq(raw, 1, Len(CountryCode)) = CountryCode
                 THEN SubSeq(raw, Len(CountryCode) + 1, Len(raw))
                 ELSE raw
        digits == SelectSeq(local, IsDigit)
    IN IF Len(digits) > 10
       THEN SubSeq(digits, Len(digits) - 9, Len(digits))
       ELSE digits

\* C19: the phone_number of every session consists only of digits, has at
\* most 10 characters, and is the canonical local form of the number its
\* start event carried.
C19_PhoneCanonical ==
    \A o \in Objs :
        LET phone == heap[o].phone_number
        IN /\ \A i \in 1..Len(phone) : IsDigit(phone[i])
           /\ Len(phone) <= 10
           /\ phone = canonical(phone_raw[o])

\* What a pass that had no work is recorded as: the kind of the event, or
\* why the media frame was skipped
NoWork == NoopKinds \cup {"no_session", "no_payload"}

\* C20: an event of unrecognized kind, a mark echo (or connected), a media
\* frame before any start and a media frame with an empty payload change
\* no session and no registry entry, buffer and flush nothing, send nothing,
\* and leave the handler at the end of the pass, about to read the next
\* event.
C20_NoWorkNoEffect ==
    [][\A c \in Conns :
           pc[c] = "recv" /\ last_ret'[c] \in NoWork =>
               /\ pc'[c] = "loop"
               /\ heap' = heap /\ sessions' = sessions
               /\ appended' = appended /\ n_flush' = n_flush
               /\ out' = out /\ stt_req' = stt_req
               /\ send_off' = send_off /\ reply_len' = reply_len
               /\ session_id' = session_id /\ stream_sid' = stream_sid
               /\ ~stop_read'[c]]_vars

\* An event of unrecognized kind was read while audio was buffered for the
\* connection's session
C20_Witness ==
    \E c \in Conns :
        /\ pc[c] = "loop" /\ last_ret[c] = "other"
        /\ get_session(session_id[c]) # 0
        /\ heap[get_session(session_id[c])].buffer_duration_ms > 0

(***************************************************************************)
(* C21.  Sessions are independent: an operation on one session             *)
(* (start_session, process_audio, end_session, at any of their steps)      *)
(* leaves every other registered session's object (audio buffer, buffered  *)
(* duration, turn count, language, is_active), its registry entry and its  *)
(* transcription request in flight untouched.                              *)
(***************************************************************************)
\* What only the handler of connection c writes
local(c) ==
    << pc[c], session_id[c], stream_sid[c], inbox[c], closed[c], cur[c],
       stt_req[c], reply_len[c], send_off[c], out[c], last_ret[c],
       stop_read[c], del_failed[c] >>

\* The session objects the step of connection c operates on: the object its
\* coroutine holds, and the one its session id is registered for
operated(c) == {cur[c], cur'[c], get_session(session_id[c])}

\* Object o is the registered session of its id
registered(o) == sessions[heap[o].session_id] = o

C21_SessionsIndependent ==
    [][\A c \in Conns : \A o \in Objs :
          local(c)' # local(c) /\ registered(o) /\ o \notin operated(c)
              => /\ heap'[o] = heap[o]
                 /\ sessions'[heap[o].session_id] = o
                 /\ \A d \in Conns :
                        cur[d] = o /\ pc[d] = "stt"
                            => /\ cur'[d] = o /\ pc'[d] = "stt"
                               /\ stt_req'[d] = stt_req[d]]_vars

(***************************************************************************)
(* The codec on its own: a sample is encoded, and its byte decoded.        *)
(***************************************************************************)
NoEnv == [SharedEnv EXCEPT !.conns = {}]

InitCodec ==
    /\ InitMain(NoEnv)
    /\ seg = NoSeg
    /\ txt = NoTxt
    /\ \E s \in Int16 : codec = [NoCodec EXCEPT !.pcm_in = << s >>]

Encode ==
    /\ codec.mulaw = << >>
    /\ codec' = [codec EXCEPT !.mulaw = pcm16_to_mulaw(codec.pcm_in)]
    /\ UNCHANGED << main_vars, seg, txt >>

Decode ==
    /\ codec.mulaw # << >>
    /\ codec.pcm_out = << >>
    /\ codec' = [codec EXCEPT !.pcm_out = mulaw_decode(codec.mulaw)]
    /\ UNCHANGED << main_vars, seg, txt >>

NextCodec == Encode \/ Decode

SpecCodec == InitCodec /\ [][NextCodec]_vars

(***************************************************************************)
(* C24.  For every signed 16-bit sample s, decoding the encoding of s      *)
(* gives a sample of the sign of s (or 0) that differs from s, clipped to  *)
(* +-32635, by at most 1024; 0 comes back as 0.                            *)
(***************************************************************************)
clip(s) ==
    IF s > _MULAW_CLIP THEN _MULAW_CLIP
    ELSE IF s < -_MULAW_CLIP THEN -_MULAW_CLIP ELSE s

abs(x) == IF x < 0 THEN -x ELSE x

C24_RoundTrip ==
    codec.pcm_out # << >> =>
        LET s == codec.pcm_in[1]
            r == codec.pcm_out[1]
        IN /\ r = 0 \/ (r > 0) = (s > 0)
           /\ abs(r - clip(s)) <= 1024
           /\ s = 0 => r = 0

(***************************************************************************)
(* The segmenter on its own: a fresh VADState with short durations is fed  *)
(* loud frames, murmurs and silence in any order, and reset at any time.   *)
(* fed and finals are the frames since construction or the last reset and  *)
(* what process_chunk returned for them, calls the calls made in all,      *)
(* speaking_ms the frame time processed since the segmenter last entered   *)
(* Speaking (0 in Silence).                                                *)
(***************************************************************************)
\* VADState(speech_min_ms=..., silence_trigger_ms=..., max_speech_ms=...)
ShortVAD ==
    [VADState EXCEPT
        !.speech_min_ms = SpeechMinChunks * CHUNK_DURATION_MS,
        !.silence_trigger_ms = SilenceTriggerChunks * CHUNK_DURATION_MS,
        !.max_speech_ms = MaxSpeechChunks * CHUNK_DURATION_MS]

Chunks == { << "S" >>, << "m" >>, << "q" >> }

InitSeg ==
    /\ InitMain(NoEnv)
    /\ codec = NoCodec
    /\ txt = NoTxt
    /\ seg = [NoSeg EXCEPT !.v = ShortVAD]

\* is_speech, should_finalize = vad.process_chunk(audio_chunk)
Feed(audio_chunk) ==
    /\ seg.calls < MaxFrames
    /\ LET r == process_chunk(seg.v, audio_chunk, CHUNK_DURATION_MS)
       IN seg' = [v |-> r, fed |-> Append(seg.fed, audio_chunk),
                  finals |-> Append(seg.finals, r.should_finalize),
                  calls |-> seg.calls + 1,
                  speaking_ms |-> IF r.is_speaking
                                  THEN seg.speaking_ms + CHUNK_DURATION_MS
                                  ELSE 0]
    /\ UNCHANGED << main_vars, codec, txt >>

\* vad.reset(): nothing is returned, and the frames that follow meet the
\* segmenter as the reset left it
Reset ==
    /\ seg.fed # << >>
    /\ seg.calls < MaxFrames
    /\ seg' = [v |-> [reset(seg.v) EXCEPT !.is_speech = FALSE,
                                          !.should_finalize = FALSE],
               fed |-> << >>, finals |-> << >>, calls |-> seg.calls + 1,
               speaking_ms |-> 0]
    /\ UNCHANGED << main_vars, codec, txt >>

NextSeg == (\E audio_chunk \in Chunks : Feed(audio_chunk)) \/ Reset

SpecSeg == InitSeg /\ [][NextSeg]_vars

\* The frame is above the onset threshold / below the silence threshold
above_onset(chunk) == calculate_rms_db(chunk) > speech_threshold_db
below_silence(chunk) == calculate_rms_db(chunk) < silence_threshold_db

\* The frames fed are a loud frames followed by b frames of silence
speech_then_silence(fed, a, b) ==
    /\ Len(fed) = a + b
    /\ \A i \in 1..a : above_onset(fed[i])
    /\ \A i \in (a + 1)..(a + b) : below_silence(fed[i])

\* The frames for which process_chunk returned should_finalize = True
finalized == {i \in 1..Len(seg.finals) : seg.finals[i]}

(***************************************************************************)
(* C22.  A fresh segmenter fed loud frames for longer than the minimum     *)
(* speech duration and then silence for longer than the trailing-silence   *)
(* trigger returns should_finalize = True on exactly one frame.            *)
(***************************************************************************)
C22_OneFinalize ==
    \A a, b \in 0..MaxFrames :
        /\ speech_then_silence(seg.fed, a, b)
        /\ a * CHUNK_DURATION_MS > seg.v.speech_min_ms
        /\ b * CHUNK_DURATION_MS > seg.v.silence_trigger_ms
        => Cardinality(finalized) = 1

\* C22 as amended: the same, for speech that lasts no longer than the cap
\* max_speech_ms
C22_OneFinalizeUpToCap ==
    \A a, b \in 0..MaxFrames :
        /\ speech_then_silence(seg.fed, a, b)
        /\ a * CHUNK_DURATION_MS > seg.v.speech_min_ms
        /\ a * CHUNK_DURATION_MS <= seg.v.max_speech_ms
        /\ b * CHUNK_DURATION_MS > seg.v.silence_trigger_ms
        => Cardinality(finalized) = 1

C22_Witness ==
    \E a, b \in 0..MaxFrames :
        /\ speech_then_silence(seg.fed, a, b)
        /\ a * CHUNK_DURATION_MS > seg.v.speech_min_ms
        /\ a * CHUNK_DURATION_MS < seg.v.max_speech_ms
        /\ b * CHUNK_DURATION_MS > seg.v.silence_trigger_ms
        /\ finalized = {a + SilenceTriggerChunks}

(***************************************************************************)
(* C23.  Fed loud frames only, the segmenter returns should_finalize =     *)
(* True on the frame at which the accumulated speech reaches max_speech_ms *)
(* (and on no other), with no silence; after every call total_speech_ms is *)
(* below max_speech_ms.                                                    *)
(***************************************************************************)
C23_CapForcesFinalize ==
    /\ seg.v.total_speech_ms < seg.v.max_speech_ms
    /\ seg.fed # << >> /\ (\A i \in 1..Len(seg.fed) : above_onset(seg.fed[i]))
        => (seg.v.should_finalize
                <=> (Len(seg.fed) * CHUNK_DURATION_MS) % seg.v.max_speech_ms = 0)

C23_Witness ==
    /\ \A i \in 1..Len(seg.fed) : above_onset(seg.fed[i])
    /\ Len(seg.fed) * CHUNK_DURATION_MS = seg.v.max_speech_ms
    /\ seg.v.should_finalize
    /\ seg.v.total_speech_ms = 0

\* The step feeds one more frame to the segmenter
fed_frame == Len(seg'.fed) = Len(seg.fed) + 1
last_frame(fed) == fed[Len(fed)]

\* The frames of trailing non-speech: those after the last loud frame
trailing_silence(fed) ==
    LET loud == {i \in 1..Len(fed) : above_onset(fed[i])}
    IN IF loud = {} THEN Len(fed)
       ELSE Len(fed) - (CHOOSE i \in loud : \A j \in loud : j <= i)

(***************************************************************************)
(* C28.  While the segmenter is Speaking, trailing silence accumulates on  *)
(* exactly the frames whose level is below the silence threshold: a frame  *)
(* between the silence threshold and the onset threshold leaves the        *)
(* silence counter (and the Speaking state) as they are.                   *)
(***************************************************************************)
C28_HysteresisBand ==
    [][fed_frame /\ seg.v.is_speaking
            /\ ~above_onset(last_frame(seg'.fed))
        => IF below_silence(last_frame(seg'.fed))
           THEN \/ seg'.v.silence_start_ms
                        = seg.v.silence_start_ms + CHUNK_DURATION_MS
                \/ ~seg'.v.is_speaking
           ELSE /\ seg'.v.silence_start_ms = seg.v.silence_start_ms
                /\ seg'.v.is_speaking]_vars

(***************************************************************************)
(* C29.  On a frame that is not speech, should_finalize is True exactly    *)
(* when the trailing silence (the consecutive non-speech frames since the  *)
(* last speech frame) reaches silence_trigger_ms and the accumulated       *)
(* speech is at least speech_min_ms; with less speech the segmenter goes   *)
(* back to Silence without finalizing; either way the speech and silence   *)
(* counters are reset.                                                     *)
(***************************************************************************)
\* The frame fed by this step takes the trailing silence to the trigger
trigger_reached ==
    LET n == trailing_silence(seg'.fed)
    IN /\ n < Len(seg'.fed)
       /\ n * CHUNK_DURATION_MS >= seg.v.silence_trigger_ms
       /\ (n - 1) * CHUNK_DURATION_MS < seg.v.silence_trigger_ms

C29_SilenceTrigger ==
    [][fed_frame /\ ~above_onset(last_frame(seg'.fed))
        => /\ seg'.v.should_finalize
                <=> (trigger_reached
                        /\ seg.v.total_speech_ms >= seg.v.speech_min_ms)
           /\ trigger_reached
                => /\ ~seg'.v.is_speaking
                   /\ seg'.v.total_speech_ms = 0
                   /\ seg'.v.silence_start_ms = 0]_vars

\* Both cases: the trigger reached after enough speech (the utterance is
\* finalized) and then after a single loud frame (it is not)
C29_Witness ==
    /\ Len(seg.fed) = SpeechMinChunks + 2 * SilenceTriggerChunks + 1
    /\ \A i \in 1..Len(seg.fed) :
          above_onset(seg.fed[i])
              <=> i \in (1..SpeechMinChunks)
                    \cup {SpeechMinChunks + SilenceTriggerChunks + 1}
    /\ finalized = {SpeechMinChunks + SilenceTriggerChunks}
    /\ ~seg.v.is_speaking

(***************************************************************************)
(* C30.  The speech decision is biased by the adaptive noise floor: once   *)
(* a noise floor has been learnt from silence, there is a frame whose      *)
(* is_speech result would be another with another noise floor.             *)
(***************************************************************************)
\* RMS values a noise floor can take
NoiseFloors == {0, 92, 200, 460, 1036, 8316}

C30_NoiseFloorBias ==
    Len(seg.v.noise_floor_samples) >= 5 =>
        \E audio_chunk \in Chunks : \E floor \in NoiseFloors :
            process_chunk([seg.v EXCEPT !.noise_floor = floor],
                          audio_chunk, CHUNK_DURATION_MS).is_speech
                # process_chunk(seg.v, audio_chunk,
                                CHUNK_DURATION_MS).is_speech

(***************************************************************************)
(* The transcript normalizer (text_correction.py).  A text is a sequence   *)
(* of characters; a Devanagari character is written by its code point.     *)
(***************************************************************************)
\* ord(char) of the characters that occur
ord ==
    ("\t" :> 9) @@ (" " :> 32) @@ ("," :> 44) @@ ("." :> 46) @@
    ("H" :> 72) @@ ("O" :> 79) @@
    ("a" :> 97) @@ ("e" :> 101) @@ ("h" :> 104) @@ ("i" :> 105) @@
    ("k" :> 107) @@ ("l" :> 108) @@ ("o" :> 111) @@ ("p" :> 112) @@ ("s" :> 115) @@
    ("t" :> 116) @@ ("v" :> 118) @@ ("w" :> 119) @@ ("y" :> 121) @@
    ("U+0924" :> 2340) @@ ("U+0935" :> 2357) @@ ("U+0938" :> 2360) @@
    ("U+093E" :> 2366) @@ ("U+094D" :> 2381) @@ ("U+0950" :> 2384) @@
    ("U+0964" :> 2404)

\* str.isspace, str.isupper and the regular expression's \w of a character
isspace(char) == ord[char] \in {9, 10, 11, 12, 13, 32}
isupper(char) == ord[char] \in 65..90
is_word(char) ==
    ord[char] \in (48..57) \cup (65..90) \cup {95} \cup (97..122)
                  \cup (2308..2361) \cup {2384}

\* str.lower of a character
lower_char(char) ==
    CASE char = "H" -> "h"
      [] char = "O" -> "o"
      [] OTHER -> char
lower(text) == [i \in 1..Len(text) |-> lower_char(text[i])]

\* str.lstrip, str.rstrip
RECURSIVE lstrip(_)
lstrip(text) ==
    IF text # << >> /\ isspace(Head(text)) THEN lstrip(Tail(text)) ELSE text
RECURSIVE rstrip(_)
rstrip(text) ==
    IF text # << >> /\ isspace(text[Len(text)])
    THEN rstrip(SubSeq(text, 1, Len(text) - 1))
    ELSE text

\* str.split(): the words between runs of whitespace
RECURSIVE split(_)
split(text) ==
    LET t == lstrip(text)
    IN  IF t = << >> THEN << >>
        ELSE LET n == CHOOSE k \in 1..Len(t) :
                          /\ \A i \in 1..k : ~isspace(t[i])
                          /\ k = Len(t) \/ isspace(t[k + 1])
             IN  << SubSeq(t, 1, n) >> \o split(SubSeq(t, n + 1, Len(t)))

\* ' '.join(words)
RECURSIVE join(_)
join(words) ==
    IF words = << >> THEN << >>
    ELSE IF Len(words) = 1 THEN words[1]
    ELSE words[1] \o << " " >> \o join(Tail(words))

\* DEVANAGARI_TO_ROMAN, the entries of the characters that occur
DEVANAGARI_TO_ROMAN ==
    ("U+093E" :> << "a", "a" >>) @@
    ("U+0924" :> << "t" >>) @@ ("U+0935" :> << "v" >>) @@
    ("U+0938" :> << "s" >>) @@
    ("U+094D" :> << >>) @@
    ("U+0964" :> << "." >>)

\* The vowel signs and the virama, and those with anusvara, visarga and
\* chandrabindu, of the two tests of _local_transliterate
MatrasVirama ==
    {"U+093E", "U+093F", "U+0940", "U+0941", "U+0942", "U+0943",
     "U+0947", "U+0948", "U+094B", "U+094C", "U+094D"}
Modifiers == MatrasVirama \cup {"U+0902", "U+0903", "U+0901"}

\* self.DEVANAGARI_RANGE.search(text)
contains_devanagari(text) ==
    \E i \in 1..Len(text) : ord[text[i]] \in 2304..2431

\* What the loop of _local_transliterate appends for chars[i]
local_piece(chars, i) ==
    LET char == chars[i]
    IN  IF char \in DOMAIN DEVANAGARI_TO_ROMAN
        THEN LET roman == DEVANAGARI_TO_ROMAN[char]
             IN  IF /\ roman # << >>
                    /\ char \notin Modifiers
                    /\ ord[char] >= 2325 /\ ord[char] <= 2361
                 THEN IF i + 1 <= Len(chars)
                      THEN LET next_char == chars[i + 1]
                           IN  IF /\ next_char \notin Modifiers
                                  /\ next_char \notin DOMAIN DEVANAGARI_TO_ROMAN
                               THEN roman \o << "a" >>
                               ELSE IF next_char \notin MatrasVirama
                               THEN roman \o << "a" >>
                               ELSE roman
                      ELSE roman \o << "a" >>
                 ELSE roman
        ELSE << char >>

RECURSIVE local_from(_, _)
local_from(chars, i) ==
    IF i > Len(chars) THEN << >>
    ELSE local_piece(chars, i) \o local_from(chars, i + 1)

\* HinglishTransliterator._local_transliterate
_local_transliterate(text) == local_from(text, 1)

\* re.sub(r'\s+', ' ', text)
RECURSIVE sub_spaces(_, _)
sub_spaces(text, i) ==
    IF i > Len(text) THEN << >>
    ELSE IF isspace(text[i])
    THEN (IF i > 1 /\ isspace(text[i - 1]) THEN << >> ELSE << " " >>)
             \o sub_spaces(text, i + 1)
    ELSE << text[i] >> \o sub_spaces(text, i + 1)

\* HinglishTransliterator._clean_transliteration
_clean_transliteration(text) == strip(lower(sub_spaces(text, 1)))

\* PHONETIC_ENGLISH_CORRECTIONS, the entries the texts can spell
PHONETIC_ENGLISH_CORRECTIONS_chain ==
    (<< "s", "v", "a", "t", "a" >> :> << "s", "w", "a", "p" >>) @@
    (<< "s", "v", "a", "a", "p" >> :> << "s", "w", "a", "p" >>) @@
    (<< "s", "v", "a", "p" >> :> << "s", "v", "a", "a", "p" >>) @@
    (<< "a", "a", "p", "a" >> :> << "a", "a", "p" >>)
PHONETIC_ENGLISH_CORRECTIONS ==
    (<< "s", "v", "a", "t", "a" >> :> << "s", "w", "a", "p" >>) @@
    (<< "s", "v", "a", "a", "p" >> :> << "s", "w", "a", "p" >>) @@
    (<< "s", "v", "a", "p" >> :> << "s", "w", "a", "p" >>) @@
    (<< "a", "a", "p", "a" >> :> << "a", "a", "p" >>)

\* word.rstrip('.,?!<danda>')
RECURSIVE rstrip_punct(_)
rstrip_punct(word) ==
    IF word # << >> /\ word[Len(word)] \in {".", ",", "?", "!", "U+0964"}
    THEN rstrip_punct(SubSeq(word, 1, Len(word) - 1))
    ELSE word

\* The body of the loop of _apply_phonetic_corrections
corrected_word(word) ==
    LET clean_word == rstrip_punct(word)
        punct == SubSeq(word, Len(clean_word) + 1, Len(word))
    IN  IF clean_word \in DOMAIN PHONETIC_ENGLISH_CORRECTIONS
        THEN PHONETIC_ENGLISH_CORRECTIONS[clean_word] \o punct
        ELSE word

\* HinglishTransliterator._apply_phonetic_corrections
_apply_phonetic_corrections(text) ==
    LET words == split(text)
    IN  join([i \in 1..Len(words) |-> corrected_word(words[i])])

\* HinglishTransliterator.transliterate (transliterate_async returns the
\* same text)
transliterate(text) ==
    IF text = << >> \/ strip(text) = << >> THEN text
    ELSE IF ~contains_devanagari(text) THEN text
    ELSE _apply_phonetic_corrections(
             _clean_transliteration(_local_transliterate(text)))

\* TextCorrector.patterns, the one whose key the texts can spell:
\* PHONETIC_CORRECTIONS["ok"]
patterns ==
    << [key |-> << "o", "k" >>,
        replacement |-> << "t", "h", "e", "e", "k", " ", "h", "a", "i" >>] >>

\* re.compile(r'\b' + key + r'\b', re.IGNORECASE) matches at text[i]
matches_at(text, i, key) ==
    /\ i + Len(key) - 1 <= Len(text)
    /\ \A j \in 1..Len(key) : lower_char(text[i + j - 1]) = key[j]
    /\ i = 1 \/ ~is_word(text[i - 1])
    /\ i + Len(key) > Len(text) \/ ~is_word(text[i + Len(key)])

\* pattern.sub(replacement, text)
RECURSIVE pattern_sub(_, _, _)
pattern_sub(p, text, i) ==
    IF i > Len(text) THEN << >>
    ELSE IF matches_at(text, i, p.key)
    THEN p.replacement \o pattern_sub(p, text, i + Len(p.key))
    ELSE << text[i] >> \o pattern_sub(p, text, i + 1)

RECURSIVE apply_patterns(_, _)
apply_patterns(ps, text) ==
    IF ps = << >> THEN text
    ELSE apply_patterns(Tail(ps), pattern_sub(Head(ps), text, 1))

\* TextCorrector.correct(text).corrected
TextCorrector_correct(text) ==
    IF text = << >> \/ strip(text) = << >> THEN text
    ELSE join(split(apply_patterns(patterns, text)))

\* CorrectionPipeline.correct(text).corrected, without the LLM step
\* (use_llm is False by default)
CorrectionPipeline_correct(text) ==
    LET transliterated ==
            IF contains_devanagari(text) THEN transliterate(text) ELSE text
    IN  TextCorrector_correct(transliterated)

(***************************************************************************)
(* The specification of the normalizer: a text of one of two families,     *)
(* mixed Devanagari and Roman, to which transliterate or the phonetic      *)
(* pass is applied once and again, or the whole pipeline once.             *)
(***************************************************************************)
AlphabetDevanagari ==
    {"U+0938", "U+094D", "U+0935", "U+0924", "U+0950", "H", " "}
AlphabetRoman == {"s", "v", "a", "p", "O", "k", " ", ","}
TextsOver(alphabet) == UNION {[1..n -> alphabet] : n \in 0..MaxText}
Texts == TextsOver(AlphabetDevanagari) \cup TextsOver(AlphabetRoman)

InitText ==
    /\ InitMain(NoEnv)
    /\ seg = NoSeg
    /\ codec = NoCodec
    /\ \E text \in Texts : txt = [NoTxt EXCEPT !.text = text]

\* The text the next pass is given: the input, then the last output
passed == IF txt.outs = << >> THEN txt.text ELSE txt.outs[Len(txt.outs)]

Transliterate ==
    /\ txt.fn \in {"none", "transliterate"}
    /\ Len(txt.outs) < 2
    /\ txt' = [txt EXCEPT !.fn = "transliterate",
                          !.outs = Append(@, transliterate(passed))]
    /\ UNCHANGED << main_vars, seg, codec >>

Phonetic ==
    /\ txt.fn \in {"none", "phonetic"}
    /\ Len(txt.outs) < 2
    /\ txt' = [txt EXCEPT !.fn = "phonetic",
                          !.outs = Append(@, _apply_phonetic_corrections(passed))]
    /\ UNCHANGED << main_vars, seg, codec >>

Correct ==
    /\ txt.fn = "none"
    /\ txt' = [txt EXCEPT !.fn = "correct",
                          !.outs = << CorrectionPipeline_correct(txt.text) >>]
    /\ UNCHANGED << main_vars, seg, codec >>

NextText == Transliterate \/ Phonetic \/ Correct

SpecText == InitText /\ [][NextText]_vars

\* C25: both passes are idempotent - transliterating a transliterated text
\* changes nothing, a text without a Devanagari code point is returned
\* unchanged by transliterate, and the phonetic pass applied twice gives
\* what it gives applied once
C25_PassesIdempotent ==
    /\ txt.fn \in {"transliterate", "phonetic"} /\ Len(txt.outs) = 2
           => txt.outs[2] = txt.outs[1]
    /\ txt.fn = "transliterate" /\ txt.outs # << >>
         /\ ~contains_devanagari(txt.text)
           => txt.outs[1] = txt.text

\* A Devanagari text was rewritten by both passes of transliterate and
\* transliterated again
C25_Witness ==
    /\ txt.fn = "transliterate" /\ Len(txt.outs) = 2
    /\ txt.text = << "U+0938", "U+094D", "U+0935", "U+0924" >>
    /\ txt.outs[1] = << "s", "w", "a", "p" >>

\* normalized(text): no upper-case letter, no leading, trailing or repeated
\* whitespace
normalized(text) ==
    /\ \A i \in 1..Len(text) : ~isupper(text[i])
    /\ text # << >> => ~isspace(text[1]) /\ ~isspace(text[Len(text)])
    /\ \A i \in 1..Len(text) - 1 : ~(isspace(text[i]) /\ isspace(text[i + 1]))

\* C26: for every input text the normalizer's output, of transliterate and
\* of the whole pipeline, is lower-cased and whitespace-normalized
C26_OutputNormalized ==
    txt.fn \in {"transliterate", "correct"} /\ txt.outs # << >>
        => normalized(txt.outs[1])

\* The characters of the texts the recognizer returns
chars ==
    ("" :> << >>) @@ (" " :> << " " >>) @@
    ("kya hai" :> << "k", "y", "a", " ", "h", "a", "i" >>) @@
    ("please help" :>
        << "p", "l", "e", "a", "s", "e", " ", "h", "e", "l", "p" >>) @@
    ("ok" :> << "o", "k" >>) @@
    (Svata :> << "U+0938", "U+094D", "U+0935", "U+0924" >>)

\* C27: normalization precedes dispatch - the message sent to the dialogue
\* engine for a turn is the transcript as the normalizer rewrites it
\* (transliterated, then corrected)
C27_NormalizedBeforeDispatch ==
    \A c \in Conns :
        rasa_req[c] # None
            => chars[rasa_req[c]]
                   = CorrectionPipeline_correct(chars[transcript[c].text])

(***************************************************************************)
(* The framing of the audio sent back.                                     *)
(***************************************************************************)
\* len(pcm_8k[i: i + pcm_chunk_size]) for a buffer of n bytes
chunk_len(n, i) == (IF i + pcm_chunk_size < n THEN i + pcm_chunk_size ELSE n) - i

\* len(pcm16_to_mulaw(chunk)): one byte per whole sample
\* (twilio_handler.py:61-63)
mulaw_len(chunk_bytes) == chunk_bytes \div 2

\* ceil(n / d)
ceil_div(n, d) == (n + d - 1) \div d

\* The handler of connection c sent a message in this step
sends(c) == out'[c] # out[c]

\* C31: audio of n PCM bytes is sent as ceil(n/320) media messages in
\* buffer order, each of at most 160 mu-law bytes, and the mark is sent
\* only after the last of them
C31_ReplyFramed ==
    [][\A c \in Conns :
          LET n == reply_len[c]
              i == send_off[c]
          IN  /\ sends(c) /\ out'[c].event = "media"
                    => /\ pc[c] \in {"send", "greet_send"}
                       /\ out'[c].label = i
                       /\ i = pcm_chunk_size * (i \div pcm_chunk_size)
                       /\ i < n
                       /\ mulaw_len(chunk_len(n, i)) <= 160
                       /\ send_off'[c] = i + pcm_chunk_size
                       /\ pc'[c] \in {"mark", "greet_mark"}
                              <=> i \div pcm_chunk_size + 1
                                      = ceil_div(n, pcm_chunk_size)
              /\ sends(c) /\ out'[c].event = "mark"
                    => /\ pc[c] \in {"mark", "greet_mark"}
                       /\ i = pcm_chunk_size * ceil_div(n, pcm_chunk_size)]_vars

\* The second and last frame of a reply of 400 bytes was sent, the mark
\* comes next
C31_Witness ==
    \E c \in Conns :
        /\ pc[c] = "mark" /\ reply_len[c] = 400
        /\ send_off[c] = 2 * pcm_chunk_size
        /\ out[c] = [event |-> "media", label |-> pcm_chunk_size]

\* C32: end_session calls for the same session that interleave at their
\* awaits send the session-end notification at most once, and none of them
\* fails when it removes the session from the registry
C32_EndSessionRace ==
    /\ \A o \in Objs : end_notes[o] < 2
    /\ \A c \in Conns : del_failed[c] = FALSE

\* C33: start_session never replaces a session that is registered and
\* active - whatever happens, such a session keeps its registry entry, and
\* with it its buffered audio, turn count and language
C33_StartKeepsLive ==
    [][\A sid \in DOMAIN sessions :
          LET o == sessions[sid]
          IN  o # 0 /\ heap[o].is_active => sessions'[sid] = o]_vars

\* C34: the language of a session created by start_session is its initial
\* 'hi-en' whatever was transcribed: no detected language changes it
C34_LanguageFixed == \A o \in Objs : heap[o].language = "hi-en"

\* A Devanagari transcript, detected as 'hi', was accepted and is on its
\* way to the dialogue engine
C34_Witness ==
    \E c \in Conns :
        /\ pc[c] = "rasa" /\ cur[c] # 0
        /\ transcript[c].text = Svata
        /\ detect_from_text(transcript[c].text) = "hi"
        /\ rasa_req[c] = Svata

\* C35: a session's turn_count never decreases, and it grows by exactly one
\* when the request that dispatched an accepted transcript to the dialogue
\* engine returns, whatever the engine returned - and at no other step
C35_TurnCounted ==
    [][/\ \A o \in Objs :
              /\ heap'[o].turn_count >= heap[o].turn_count
              /\ heap'[o].turn_count # heap[o].turn_count
                     => \E c \in Conns :
                            /\ pc[c] = "rasa" /\ pc'[c] # "rasa"
                            /\ cur[c] = o /\ rasa_req[c] # None
       /\ \A c \in Conns :
              pc[c] = "rasa" /\ pc'[c] # "rasa"
                  => /\ rasa_req[c] # None
                     /\ heap'[cur[c]].turn_count
                            = heap[cur[c]].turn_count + 1]_vars

\* The request of an accepted transcript failed, the engine gave no reply,
\* and the turn was counted
C35_Witness ==
    \E c \in Conns, o \in Objs :
        /\ started_by[o] = c /\ heap[o].turn_count = 1
        /\ last_ret[c] = "no_text" /\ n_fail[o] = 1
        /\ transcribed[o] # << >>

\* C36: after every process_chunk or reset call a segmenter that is not
\* speaking has zeroed speech and silence counters, so that speech counted
\* means Speaking and every onset starts from zero
C36_IdleCountersZero ==
    /\ ~seg.v.is_speaking
           => seg.v.total_speech_ms = 0 /\ seg.v.silence_start_ms = 0
    /\ seg.v.total_speech_ms > 0 => seg.v.is_speaking

\* A segmenter that was reset in mid-utterance has since been fed loud
\* frames up to the cap, which ended the utterance: it is in Silence
C36_Witness ==
    /\ seg.calls > Len(seg.fed) + 2
    /\ Len(seg.fed) = MaxSpeechChunks
    /\ \A i \in 1..Len(seg.fed) : above_onset(seg.fed[i])
    /\ seg.v.should_finalize /\ ~seg.v.is_speaking

\* C37: from the frame at which the segmenter enters Speaking it finalizes
\* or returns to Silence within max_speech_ms of processed frame time,
\* pauses included - it is never still Speaking when that time has passed
C37_UtteranceBounded == seg.speaking_ms < seg.v.max_speech_ms

\* C38: for every text that contains Devanagari, transliterate returns a
\* text with no code point of the Devanagari block left
C38_NoDevanagariLeft ==
    txt.fn = "transliterate" /\ txt.outs # << >>
        /\ contains_devanagari(txt.text)
            => ~contains_devanagari(txt.outs[1])

=============================================================================
